---- MODULE Spec2Model ----
(***************************************************************************)
(* State-machine model of src/src/gpu/GrAAConvexPathRenderer.cpp:          *)
(* canDrawPath, the degeneracy classifier (update_degenerate_test), the    *)
(* path decoder (get_segments), the buffer sizing (compute_vectors), the   *)
(* mesh writer (create_vertices) and the orchestration in drawPath.        *)
(*                                                                         *)
(* Coordinates are integers in grid units of 1/16 of a device unit, so     *)
(* the classifier's tolerance SK_Scalar1/16 is one grid unit.  A unit      *)
(* vector v/|v| is kept as the pair (v, |v|^2), and a comparison           *)
(* |x|/|v| > TOL is evaluated as x^2 > TOL^2 * |v|^2: real arithmetic,     *)
(* without floating-point rounding.  Positions, normals and texture        *)
(* coordinates of the emitted vertices are not modelled: no count, cursor, *)
(* index value or branch of the code reads them.                           *)
(*                                                                         *)
(* C arrays are 0-based, TLA+ sequences 1-based: pts[k] of the code is     *)
(* pts[k+1] here, segments[a] is segments[a+1].                            *)
(***************************************************************************)
EXTENDS Integers, Sequences, FiniteSets, TLC

(* ------------------------------ bounds --------------------------------- *)
\* number of sample points the path iterator may return
NumPoints == 4
\* number of segments a decoded path may hold before the iterator must end
MaxSegs == 3
\* number of quadratics convertCubicToQuads may return for one cubic
MaxCubicQuads == 2
\* number of points fed to the classifier in SpecDeg
MaxFeeds == 4
\* number of line segments of the large polygon of SpecBig
BigSegs == 7282

(* ----------------------------- constants ------------------------------- *)
\* grid units per SK_Scalar1 (TOL = SK_Scalar1 / 16 is then one unit)
UnitsPerScalar1 == 16
\* width of an index: uint16_t
IndexBits == 16

TOL == UnitsPerScalar1 \div 16
TOL_SQD == TOL * TOL
IndexModulus == 2 ^ IndexBits

(* --------------------------- sample inputs ----------------------------- *)
PointList ==
    << <<0, 0>>, <<1, 1>>, <<2, 0>>, <<1, 0>>, <<2, 1>>, <<0, 2>>, <<3, 1>> >>
Points == { PointList[k] : k \in 1..NumPoints }

Stages == {0, 1}
StageMasks == { {0} }
Fills ==
    {"kHairLine_PathFill", "kWinding_PathFill", "kEvenOdd_PathFill",
     "kInverseWinding_PathFill", "kInverseEvenOdd_PathFill"}

(* -------------------------- matrices (GrMatrix) ------------------------ *)
\* A matrix is a product of named factors; the identity is the empty product.
Factor(name) == [m |-> name, inv |-> FALSE]
IdentityMatrix == << >>
ViewMatrices == { IdentityMatrix, <<Factor("M")>>, <<Factor("Singular")>> }
postTranslate(m) == Append(m, Factor("Translate"))
invertible(m) == \A k \in 1..Len(m) : m[k].m # "Singular"
inverse(m) ==
    [k \in 1..Len(m) |-> [m |-> m[Len(m) + 1 - k].m, inv |-> ~m[Len(m) + 1 - k].inv]]
preConcat(m, other) == m \o other

VARIABLES
    pc,            \* position in drawPath
    drawState,     \* fTarget->drawState(): view matrix, sampler matrices, edge type
    asr,           \* GrDrawTarget::AutoStateRestore asr
    entryState,    \* the draw state when drawPath / canDrawPath was entered
    stageMask,     \* argument of drawPath
    pathEmpty,     \* fPath->isEmpty()
    iterPos,       \* SkPath::Iter: "start", "segs", "closed", "end"
    movePt,        \* point of the move command, as a sequence of length <= 1
    lastPt,        \* last point the iterator returned, as a sequence of length <= 1
    degenerateData, \* DegenerateTestData degenerateData
    segments,      \* SegmentArray segments
    fedSet,        \* points passed to update_degenerate_test so far
    nFed,          \* number of calls of update_degenerate_test
    lastFedPt,     \* argument of the latest call of update_degenerate_test
    nIntro,        \* points introduced by line, quadratic and cubic commands
    vCount, iCount, \* int vCount, iCount
    vertexHeld, indexHeld, \* reservations of this call still held by the target
    calls,         \* backend calls and create_vertices, in order
    a, v, i,       \* create_vertices: loop index and the two cursors
    vertWrites,    \* vertex slots written, in order
    idxWrites,     \* index slots written with the stored value, in order
    lastWrite,     \* what the latest iteration of create_vertices wrote
    logBuffers,    \* whether vertWrites and idxWrites are kept
    cdArgs, cdCalled, cdResult  \* canDrawPath: arguments, called, result

vars ==
    << pc, drawState, asr, entryState, stageMask, pathEmpty, iterPos, movePt,
       lastPt, degenerateData, segments, fedSet, nFed, lastFedPt, nIntro,
       vCount, iCount, vertexHeld, indexHeld, calls, a, v, i,
       vertWrites, idxWrites, lastWrite, logBuffers, cdArgs, cdCalled, cdResult >>

(* ------------------------- canDrawPath (21-28) ------------------------- *)
GrIsFillInverted(fill) ==
    fill \in {"kInverseWinding_PathFill", "kInverseEvenOdd_PathFill"}

canDrawPath_noConvex(args) ==
    /\ args.fShaderDerivativeSupport
    /\ args.antiAlias
    /\ "kHairLine_PathFill" # args.fill
    /\ ~GrIsFillInverted(args.fill)

canDrawPath(args) ==
    /\ args.fShaderDerivativeSupport
    /\ args.antiAlias
    /\ "kHairLine_PathFill" # args.fill
    /\ ~GrIsFillInverted(args.fill)
    /\ args.isConvex

(* ------------------- DegenerateTestData (150-162) ---------------------- *)
NoVec == [fX |-> 0, fY |-> 0, len2 |-> 0]

\* fFirstPoint, fLineNormal and fLineC are not initialised by the constructor;
\* they are read only in stages that have assigned them.
DegenerateTestData_ctor ==
    [fStage |-> "kInitial", fFirstPoint |-> <<0, 0>>, fLineNormal |-> NoVec,
     fLineC |-> 0]

isDegenerate(data) == "kNonDegenerate" # data.fStage

distanceToSqd(p, q) ==
    (p[1] - q[1]) * (p[1] - q[1]) + (p[2] - q[2]) * (p[2] - q[2])

\* SkPoint::setOrthog(vec) with the default side, applied to vec / |vec|
setOrthog(d) ==
    [fX |-> d[2], fY |-> 0 - d[1], len2 |-> d[1] * d[1] + d[2] * d[2]]

\* fLineNormal.dot(pt) + fLineC, times |fLineNormal's source vector|
lineValue(data, pt) ==
    data.fLineNormal.fX * pt[1] + data.fLineNormal.fY * pt[2] + data.fLineC

(* ------------------- update_degenerate_test (164-191) ------------------ *)
update_degenerate_test_skipLine(data, pt) ==
    CASE data.fStage = "kInitial" ->
            [data EXCEPT !.fFirstPoint = pt, !.fStage = "kPoint"]
      [] data.fStage = "kPoint" ->
            IF distanceToSqd(pt, data.fFirstPoint) > TOL_SQD
            THEN LET n == setOrthog(<<pt[1] - data.fFirstPoint[1],
                                      pt[2] - data.fFirstPoint[2]>>)
                 IN  [data EXCEPT
                        !.fLineNormal = n,
                        !.fLineC = 0 - (n.fX * data.fFirstPoint[1]
                                        + n.fY * data.fFirstPoint[2]),
                        !.fStage = "kNonDegenerate"]
            ELSE data
      [] data.fStage = "kLine" ->
            IF lineValue(data, pt) * lineValue(data, pt)
                 > TOL_SQD * data.fLineNormal.len2
            THEN [data EXCEPT !.fStage = "kNonDegenerate"]
            ELSE data
      [] data.fStage = "kNonDegenerate" -> data

update_degenerate_test(data, pt) ==
    CASE data.fStage = "kInitial" ->
            [data EXCEPT !.fFirstPoint = pt, !.fStage = "kPoint"]
      [] data.fStage = "kPoint" ->
            IF distanceToSqd(pt, data.fFirstPoint) > TOL_SQD
            THEN LET n == setOrthog(<<pt[1] - data.fFirstPoint[1],
                                      pt[2] - data.fFirstPoint[2]>>)
                 IN  [data EXCEPT
                        !.fLineNormal = n,
                        !.fLineC = 0 - (n.fX * data.fFirstPoint[1]
                                        + n.fY * data.fFirstPoint[2]),
                        !.fStage = "kLine"]
            ELSE data
      [] data.fStage = "kLine" ->
            IF lineValue(data, pt) * lineValue(data, pt)
                 > TOL_SQD * data.fLineNormal.len2
            THEN [data EXCEPT !.fStage = "kNonDegenerate"]
            ELSE data
      [] data.fStage = "kNonDegenerate" -> data

\* The classifier together with the record of what was passed to it.
Tracker(data, set, n, last) ==
    [data |-> data, fedSet |-> set, nFed |-> n, lastFedPt |-> last]

feed(t, pt) ==
    Tracker(update_degenerate_test(t.data, pt), t.fedSet \cup {pt},
            t.nFed + 1, <<pt>>)

(* ----------------------- get_segments (193-260) ------------------------ *)
\* One Segment: only fType is kept (see the header).
Segment(type) == [fType |-> type]

\* case kMove_PathCmd (212-214)
onMove_notFed(t, pts) == t

onMove(t, pts) == feed(t, pts[1])

\* case kLine_PathCmd (215-221)
onLine(t, pts) == feed(t, pts[2])

pushLine(segs) == Append(segs, Segment("kLine"))

\* case kQuadratic_PathCmd (222-229)
onQuad(t, pts) == feed(feed(t, pts[2]), pts[3])

pushQuad(segs) == Append(segs, Segment("kQuad"))

\* case kCubic_PathCmd (230-244); nQuads is quads.count() / 3
onCubic(t, pts) == feed(feed(feed(t, pts[2]), pts[3]), pts[4])

pushCubic(segs, nQuads) == segs \o [q \in 1..nQuads |-> Segment("kQuad")]

(* ---------------------- compute_vectors (95-148) ----------------------- *)
Counts(vc, ic) == [vCount |-> vc, iCount |-> ic]

\* one pass of the loop "compute normals at all points" (114-134)
edgeCounts_lineAsQuad(segs, k, c) ==
    LET b == (k + 1) % Len(segs)
        segb == segs[b + 1]
    IN  Counts(c.vCount + 6, c.iCount + 12)

edgeCounts(segs, k, c) ==
    LET b == (k + 1) % Len(segs)
        segb == segs[b + 1]
    IN  IF "kLine" = segb.fType
        THEN Counts(c.vCount + 5, c.iCount + 9)
        ELSE Counts(c.vCount + 6, c.iCount + 12)

\* one pass of the loop "compute mid-vectors where segments meet" (138-147)
cornerCounts(segs, k, c) == Counts(c.vCount + 4, c.iCount + 6)

\* the passes lo .. hi of the first loop, in order, starting from the counts c.
\* The range is halved, and the first half is evaluated (by the test on it)
\* before the second half starts, so that the evaluation nests only
\* log(hi - lo) deep; the test is true of every count.
RECURSIVE edgePasses(_, _, _, _)
edgePasses(segs, lo, hi, c) ==
    IF lo > hi THEN c
    ELSE IF lo = hi THEN edgeCounts(segs, lo, c)
    ELSE LET mid == (lo + hi) \div 2
             first == edgePasses(segs, lo, mid, c)
         IN  IF first.vCount >= 0
             THEN edgePasses(segs, mid + 1, hi, first)
             ELSE first

\* the passes lo .. hi of the second loop, in order
RECURSIVE cornerPasses(_, _, _, _)
cornerPasses(segs, lo, hi, c) ==
    IF lo > hi THEN c
    ELSE IF lo = hi THEN cornerCounts(segs, lo, c)
    ELSE LET mid == (lo + hi) \div 2
             first == cornerPasses(segs, lo, mid, c)
         IN  IF first.vCount >= 0
             THEN cornerPasses(segs, mid + 1, hi, first)
             ELSE first

\* *vCount = 0; *iCount = 0; then both loops over a = 0 .. count - 1
compute_vectors(segs) ==
    cornerPasses(segs, 0, Len(segs) - 1,
                 edgePasses(segs, 0, Len(segs) - 1, Counts(0, 0)))

(* ---------------------- create_vertices (269-399) ---------------------- *)
WedgeVerts == 4
LineVerts == 5
QuadVerts == 6
\* offsets added to v in the index assignments of a corner wedge (296-301),
\* a line group (330-340) and a quadratic group (380-393)
WedgeIdx == <<0, 2, 1, 0, 3, 2>>
LineIdx == <<0, 2, 1, 3, 1, 2, 4, 3, 2>>
QuadIdx == <<3, 1, 2, 4, 3, 2, 5, 3, 4, 0, 2, 1>>

\* idxs[i + k] = v + offs[k]: an int stored into a uint16_t
storeIdx(val) == val % IndexModulus

vertSlots(vv, n) == [k \in 1..n |-> vv + k - 1]
idxSlots(ii, vv, offs) ==
    [k \in 1..Len(offs) |-> [slot |-> ii + k - 1, val |-> storeIdx(vv + offs[k])]]
idxVals(vv, offs) == [k \in 1..Len(offs) |-> storeIdx(vv + offs[k])]

Cursor(aa, vv, ii, vw, iw, lw) ==
    [a |-> aa, v |-> vv, i |-> ii, vertWrites |-> vw, idxWrites |-> iw,
     lastWrite |-> lw]

NoWrite ==
    [wedgeV |-> 0, wedgeIdx |-> << >>, edgeV |-> 0, edgeIdx |-> << >>,
     edgeVerts |-> 0]

\* one pass of the loop body (277-398)
create_vertices_iter_shortWedge(c, segs, log) ==
    LET count == Len(segs)
        b == (c.a + 1) % count
        segb == segs[b + 1]
        v1 == c.v + 3
        i1 == c.i + 6
        isLine == "kLine" = segb.fType
        n == IF isLine THEN LineVerts ELSE QuadVerts
        offs == IF isLine THEN LineIdx ELSE QuadIdx
    IN  Cursor(c.a + 1, v1 + n, i1 + Len(offs),
               IF log
               THEN c.vertWrites \o vertSlots(c.v, WedgeVerts) \o vertSlots(v1, n)
               ELSE c.vertWrites,
               IF log
               THEN c.idxWrites \o idxSlots(c.i, c.v, WedgeIdx)
                                \o idxSlots(i1, v1, offs)
               ELSE c.idxWrites,
               [wedgeV |-> c.v, wedgeIdx |-> idxVals(c.v, WedgeIdx),
                edgeV |-> v1, edgeIdx |-> idxVals(v1, offs), edgeVerts |-> n])

create_vertices_iter(c, segs, log) ==
    LET count == Len(segs)
        b == (c.a + 1) % count
        segb == segs[b + 1]
        v1 == c.v + 4
        i1 == c.i + 6
        isLine == "kLine" = segb.fType
        n == IF isLine THEN LineVerts ELSE QuadVerts
        offs == IF isLine THEN LineIdx ELSE QuadIdx
    IN  Cursor(c.a + 1, v1 + n, i1 + Len(offs),
               IF log
               THEN c.vertWrites \o vertSlots(c.v, WedgeVerts) \o vertSlots(v1, n)
               ELSE c.vertWrites,
               IF log
               THEN c.idxWrites \o idxSlots(c.i, c.v, WedgeIdx)
                                \o idxSlots(i1, v1, offs)
               ELSE c.idxWrites,
               [wedgeV |-> c.v, wedgeIdx |-> idxVals(c.v, WedgeIdx),
                edgeV |-> v1, edgeIdx |-> idxVals(v1, offs), edgeVerts |-> n])

\* the passes lo .. hi of the loop, in order, starting from the cursor c
RECURSIVE createPasses(_, _, _, _, _)
createPasses(segs, lo, hi, c, log) ==
    IF lo > hi THEN c
    ELSE IF lo = hi THEN create_vertices_iter(c, segs, log)
    ELSE LET mid == (lo + hi) \div 2
             first == createPasses(segs, lo, mid, c, log)
         IN  IF first.v >= 0
             THEN createPasses(segs, mid + 1, hi, first, log)
             ELSE first

\* int v = 0; int i = 0; then the loop over a = 0 .. count - 1
create_vertices(segs, log) ==
    createPasses(segs, 0, Len(segs) - 1,
                 Cursor(0, 0, 0, << >>, << >>, NoWrite), log)

(* ------------------ GrDrawTarget::AutoStateRestore --------------------- *)
AsrIdle == [armed |-> FALSE, saved |-> [viewMatrix |-> IdentityMatrix,
                                         samplerMatrices |-> [s \in Stages |-> IdentityMatrix],
                                         vertexEdgeType |-> "kHairLine_EdgeType"]]

\* asr.set(fTarget): keeps a copy of the target's draw state
asrSet(ds) == [armed |-> TRUE, saved |-> ds]

\* ~AutoStateRestore(): puts the copy back if set() was called
asrRestore(r, ds) == IF r.armed THEN r.saved ELSE ds

(* ------------------------- drawPath (403-460) -------------------------- *)
Call(op, vc, ic, ok) == [op |-> op, vCount |-> vc, iCount |-> ic, ok |-> ok]

\* where drawPath goes after the isEmpty test (405-407)
afterEnter(empty) == IF empty THEN "done" ELSE "setup"

\* lines 410-418: the state saved by asr and the state drawPath leaves set
setupState_saveLate(ds, mask) ==
    LET vm == postTranslate(ds.viewMatrix)
        concat == IF invertible(vm)
                  THEN [s \in Stages |->
                          IF s \in mask
                          THEN preConcat(ds.samplerMatrices[s], inverse(vm))
                          ELSE ds.samplerMatrices[s]]
                  ELSE ds.samplerMatrices
        set == [ds EXCEPT !.samplerMatrices = concat,
                          !.viewMatrix = IdentityMatrix]
    IN  [asr |-> asrSet(set), drawState |-> set]

setupState(ds, mask) ==
    LET vm == postTranslate(ds.viewMatrix)
        saved == asrSet(ds)
        concat == IF invertible(vm)
                  THEN [s \in Stages |->
                          IF s \in mask
                          THEN preConcat(ds.samplerMatrices[s], inverse(vm))
                          ELSE ds.samplerMatrices[s]]
                  ELSE ds.samplerMatrices
    IN  [asr |-> saved,
         drawState |-> [ds EXCEPT !.samplerMatrices = concat,
                                  !.viewMatrix = IdentityMatrix]]

\* where drawPath goes after get_segments returned (246-255, 438-440)
afterGetSegments_drawAnyway(data) == "reserveV"

afterGetSegments(data) == IF isDegenerate(data) THEN "return" ELSE "reserveV"

\* lines 442-446: reserveVertexSpace answered ok
Outcome(cs, vh, ih, next) ==
    [calls |-> cs, vertexHeld |-> vh, indexHeld |-> ih, pc |-> next]

reserveVertexStep(n, ok) ==
    Outcome(<<Call("reserveVertexSpace", n, 0, ok)>>, ok, FALSE,
            IF ok THEN "reserveI" ELSE "return")

\* lines 447-450: reserveIndexSpace answered ok
reserveIndexStep_noReset(n, ok) ==
    Outcome(<<Call("reserveIndexSpace", 0, n, ok)>>, TRUE, ok,
            IF ok THEN "emit" ELSE "return")

reserveIndexStep_ignoreFailure(n, ok) ==
    IF ok
    THEN Outcome(<<Call("reserveIndexSpace", 0, n, ok)>>, TRUE, TRUE, "emit")
    ELSE Outcome(<<Call("reserveIndexSpace", 0, n, ok),
                   Call("resetVertexSource", 0, 0, TRUE)>>, FALSE, FALSE, "emit")

reserveIndexStep(n, ok) ==
    IF ok
    THEN Outcome(<<Call("reserveIndexSpace", 0, n, ok)>>, TRUE, TRUE, "emit")
    ELSE Outcome(<<Call("reserveIndexSpace", 0, n, ok),
                   Call("resetVertexSource", 0, 0, TRUE)>>, FALSE, FALSE, "return")

(* ------------------------------ actions -------------------------------- *)
targetVars == <<drawState, asr>>
inputVars == <<entryState, stageMask, pathEmpty, logBuffers>>
iterVars == <<iterPos, movePt, lastPt>>
feedVars == <<degenerateData, fedSet, nFed, lastFedPt>>
introVars == <<nIntro>>
countVars == <<vCount, iCount>>
backendVars == <<vertexHeld, indexHeld, calls>>
emitVars == <<a, v, i, vertWrites, idxWrites, lastWrite>>
cdVars == <<cdArgs, cdCalled, cdResult>>

CurTracker == Tracker(degenerateData, fedSet, nFed, lastFedPt)

SetTracker(t) ==
    /\ degenerateData' = t.data
    /\ fedSet' = t.fedSet
    /\ nFed' = t.nFed
    /\ lastFedPt' = t.lastFedPt

Introduce(pts) ==
    /\ nIntro' = nIntro + Len(pts)
    /\ lastPt' = <<pts[Len(pts)]>>

\* bool canDrawPath(caps, path, fill, antiAlias) const
CanDrawPath ==
    /\ pc = "query"
    /\ ~cdCalled
    /\ cdCalled' = TRUE
    /\ cdResult' = canDrawPath(cdArgs)
    /\ UNCHANGED <<pc, targetVars, inputVars, iterVars, feedVars, introVars,
                   segments, countVars, backendVars, emitVars, cdArgs>>

\* update_degenerate_test called on its own with any point
DegFeed ==
    /\ pc = "classify"
    /\ nFed < MaxFeeds
    /\ \E p \in Points : SetTracker(feed(CurTracker, p))
    /\ UNCHANGED <<pc, targetVars, inputVars, iterVars, introVars, segments,
                   countVars, backendVars, emitVars, cdVars>>

\* drawPath, lines 404-407
DrawPathEnter ==
    /\ pc = "idle"
    /\ pc' = afterEnter(pathEmpty)
    /\ UNCHANGED <<targetVars, inputVars, iterVars, feedVars, introVars,
                   segments, countVars, backendVars, emitVars, cdVars>>

\* drawPath, lines 408-429
SetupState ==
    /\ pc = "setup"
    /\ LET r == setupState(drawState, stageMask)
       IN  /\ asr' = r.asr
           /\ drawState' = r.drawState
    /\ pc' = "decode"
    /\ UNCHANGED <<inputVars, iterVars, feedVars, introVars, segments,
                   countVars, backendVars, emitVars, cdVars>>

\* get_segments: iter.next returns kMove_PathCmd
GetSegmentsMove ==
    /\ pc = "decode"
    /\ iterPos = "start"
    /\ \E p \in Points :
          /\ SetTracker(onMove(CurTracker, <<p, p, p, p>>))
          /\ movePt' = <<p>>
          /\ lastPt' = <<p>>
    /\ iterPos' = "segs"
    /\ UNCHANGED <<pc, targetVars, inputVars, introVars, segments, countVars,
                   backendVars, emitVars, cdVars>>

\* get_segments: iter.next returns kLine_PathCmd; with forceClose the last
\* line of a contour that does not end where it began returns to the move point
GetSegmentsLine ==
    /\ pc = "decode"
    /\ iterPos = "segs"
    /\ \E p \in Points :
          /\ Len(segments) < MaxSegs \/ (<<p>> = movePt /\ lastPt # movePt)
          /\ SetTracker(onLine(CurTracker, <<lastPt[1], p, p, p>>))
          /\ Introduce(<<p>>)
    /\ segments' = pushLine(segments)
    /\ UNCHANGED <<pc, targetVars, inputVars, iterPos, movePt, countVars,
                   backendVars, emitVars, cdVars>>

\* get_segments: iter.next returns kQuadratic_PathCmd
GetSegmentsQuad ==
    /\ pc = "decode"
    /\ iterPos = "segs"
    /\ Len(segments) < MaxSegs
    /\ \E p1, p2 \in Points :
          /\ SetTracker(onQuad(CurTracker, <<lastPt[1], p1, p2, p2>>))
          /\ Introduce(<<p1, p2>>)
    /\ segments' = pushQuad(segments)
    /\ UNCHANGED <<pc, targetVars, inputVars, iterPos, movePt, countVars,
                   backendVars, emitVars, cdVars>>

\* get_segments: iter.next returns kCubic_PathCmd (230-233)
GetSegmentsCubic ==
    /\ pc = "decode"
    /\ iterPos = "segs"
    /\ Len(segments) < MaxSegs
    /\ \E p1, p2, p3 \in Points :
          /\ SetTracker(onCubic(CurTracker, <<lastPt[1], p1, p2, p3>>))
          /\ Introduce(<<p1, p2, p3>>)
    /\ pc' = "convert"
    /\ UNCHANGED <<targetVars, inputVars, iterPos, movePt, segments, countVars,
                   backendVars, emitVars, cdVars>>

\* get_segments, the cubic case continued (234-243): convertCubicToQuads
\* returns nQuads quadratics, each pushed as one segment
ConvertCubicToQuads ==
    /\ pc = "convert"
    /\ \E nQuads \in 1..MaxCubicQuads : segments' = pushCubic(segments, nQuads)
    /\ pc' = "decode"
    /\ UNCHANGED <<targetVars, inputVars, iterVars, feedVars, introVars,
                   countVars, backendVars, emitVars, cdVars>>

\* get_segments: iter.next returns kClose_PathCmd (the default case, 256-257)
GetSegmentsClose ==
    /\ pc = "decode"
    /\ iterPos = "segs"
    /\ segments # << >>
    /\ lastPt = movePt
    /\ iterPos' = "closed"
    /\ UNCHANGED <<pc, targetVars, inputVars, movePt, lastPt, feedVars,
                   introVars, segments, countVars, backendVars, emitVars, cdVars>>

\* get_segments: iter.next returns kEnd_PathCmd (245-255)
GetSegmentsEnd ==
    /\ pc = "decode"
    /\ \/ iterPos = "closed"
       \/ iterPos = "start"
       \/ iterPos = "segs" /\ segments = << >>
    /\ iterPos' = "end"
    /\ pc' = afterGetSegments(degenerateData)
    /\ IF pc' = "return"
       THEN UNCHANGED countVars
       ELSE LET c == compute_vectors(segments)
            IN  /\ vCount' = c.vCount
                /\ iCount' = c.iCount
    /\ UNCHANGED <<targetVars, inputVars, movePt, lastPt, feedVars, introVars,
                   segments, backendVars, emitVars, cdVars>>

ApplyOutcome(o) ==
    /\ calls' = calls \o o.calls
    /\ vertexHeld' = o.vertexHeld
    /\ indexHeld' = o.indexHeld
    /\ pc' = o.pc

\* drawPath, lines 442-446
ReserveVertexSpace ==
    /\ pc = "reserveV"
    /\ \E ok \in BOOLEAN : ApplyOutcome(reserveVertexStep(vCount, ok))
    /\ UNCHANGED <<targetVars, inputVars, iterVars, feedVars, introVars,
                   segments, countVars, emitVars, cdVars>>

\* drawPath, lines 447-450
ReserveIndexSpace ==
    /\ pc = "reserveI"
    /\ \E ok \in BOOLEAN : ApplyOutcome(reserveIndexStep(iCount, ok))
    /\ UNCHANGED <<targetVars, inputVars, iterVars, feedVars, introVars,
                   segments, countVars, emitVars, cdVars>>

\* drawPath, line 452: create_vertices(segments, fanPt, verts, idxs)
CreateVertices ==
    /\ pc = "emit"
    /\ LET c == create_vertices(segments, logBuffers)
       IN  /\ a' = c.a
           /\ v' = c.v
           /\ i' = c.i
           /\ vertWrites' = c.vertWrites
           /\ idxWrites' = c.idxWrites
           /\ lastWrite' = c.lastWrite
    /\ calls' = Append(calls, Call("create_vertices", 0, 0, TRUE))
    /\ pc' = "draw"
    /\ UNCHANGED <<targetVars, inputVars, iterVars, feedVars, introVars,
                   segments, countVars, vertexHeld, indexHeld, cdVars>>

\* drawPath, lines 454-459
DrawIndexed ==
    /\ pc = "draw"
    /\ drawState' = [drawState EXCEPT !.vertexEdgeType = "kQuad_EdgeType"]
    /\ calls' = Append(calls, Call("drawIndexed", vCount, iCount, TRUE))
    /\ pc' = "return"
    /\ UNCHANGED <<asr, inputVars, iterVars, feedVars, introVars, segments,
                   countVars, vertexHeld, indexHeld, emitVars, cdVars>>

\* drawPath returns after asr was constructed: ~AutoStateRestore runs
DrawPathReturn ==
    /\ pc = "return"
    /\ drawState' = asrRestore(asr, drawState)
    /\ pc' = "done"
    /\ UNCHANGED <<asr, inputVars, iterVars, feedVars, introVars, segments,
                   countVars, backendVars, emitVars, cdVars>>

(* --------------------------- initial states ---------------------------- *)
SamplerEntry == [s \in Stages |-> <<Factor("Tex")>>]

DrawStates ==
    { [viewMatrix |-> m, samplerMatrices |-> SamplerEntry,
       vertexEdgeType |-> "kHairLine_EdgeType"] : m \in ViewMatrices }

CanArgs ==
    [fShaderDerivativeSupport : BOOLEAN, antiAlias : BOOLEAN, fill : Fills,
     isConvex : BOOLEAN]

AcceptedArgs ==
    [fShaderDerivativeSupport |-> TRUE, antiAlias |-> TRUE,
     fill |-> "kWinding_PathFill", isConvex |-> TRUE]

TargetInit ==
    /\ drawState \in DrawStates
    /\ entryState = drawState
    /\ asr = AsrIdle

DecodeInit ==
    /\ iterPos = "start"
    /\ movePt = << >>
    /\ lastPt = << >>
    /\ degenerateData = DegenerateTestData_ctor
    /\ segments = << >>
    /\ fedSet = {}
    /\ nFed = 0
    /\ lastFedPt = << >>
    /\ nIntro = 0
    /\ vCount = 0
    /\ iCount = 0

BackendInit ==
    /\ vertexHeld = FALSE
    /\ indexHeld = FALSE
    /\ calls = << >>

EmitInit ==
    /\ a = 0
    /\ v = 0
    /\ i = 0
    /\ vertWrites = << >>
    /\ idxWrites = << >>
    /\ lastWrite = NoWrite

CanIdle ==
    /\ cdArgs = AcceptedArgs
    /\ cdCalled = FALSE
    /\ cdResult = FALSE

\* one call of drawPath on any path over Points
Init ==
    /\ pc = "idle"
    /\ TargetInit
    /\ stageMask \in StageMasks
    /\ pathEmpty \in BOOLEAN
    /\ logBuffers = TRUE
    /\ DecodeInit
    /\ BackendInit
    /\ EmitInit
    /\ CanIdle

Next ==
    \/ DrawPathEnter
    \/ SetupState
    \/ GetSegmentsMove
    \/ GetSegmentsLine
    \/ GetSegmentsQuad
    \/ GetSegmentsCubic
    \/ ConvertCubicToQuads
    \/ GetSegmentsClose
    \/ GetSegmentsEnd
    \/ ReserveVertexSpace
    \/ ReserveIndexSpace
    \/ CreateVertices
    \/ DrawIndexed
    \/ DrawPathReturn

Spec == Init /\ [][Next]_vars

\* update_degenerate_test fed any sequence of at most MaxFeeds points
InitDeg ==
    /\ pc = "classify"
    /\ TargetInit
    /\ stageMask = {}
    /\ pathEmpty = FALSE
    /\ logBuffers = TRUE
    /\ DecodeInit
    /\ BackendInit
    /\ EmitInit
    /\ CanIdle

NextDeg == DegFeed

SpecDeg == InitDeg /\ [][NextDeg]_vars

\* one call of canDrawPath with any arguments
InitCan ==
    /\ pc = "query"
    /\ TargetInit
    /\ stageMask = {}
    /\ pathEmpty = FALSE
    /\ logBuffers = TRUE
    /\ DecodeInit
    /\ BackendInit
    /\ EmitInit
    /\ cdArgs \in CanArgs
    /\ cdCalled = FALSE
    /\ cdResult = FALSE

NextCan == CanDrawPath

SpecCan == InitCan /\ [][NextCan]_vars

\* A convex polygon of n line segments, decoded: the move point is
\* BigPoint(0), lines run to BigPoint(1) .. BigPoint(n - 1), the closing line
\* returns to BigPoint(0).  The points lie on a parabola, so every corner turns
\* the same way.
BigPoint(k) == <<k, (k * (k - 1)) \div 2>>

BigData ==
    update_degenerate_test(
        update_degenerate_test(
            update_degenerate_test(
                update_degenerate_test(DegenerateTestData_ctor, BigPoint(0)),
                BigPoint(1)),
            BigPoint(2)),
        BigPoint(3))

BigCounts == (BigSegs - 5)..BigSegs

\* drawPath on such a polygon, from the point where get_segments has decoded
\* every command and the iterator is about to return kEnd_PathCmd
InitBig ==
    /\ pc = "decode"
    /\ entryState \in DrawStates
    /\ stageMask \in StageMasks
    /\ asr = setupState(entryState, stageMask).asr
    /\ drawState = setupState(entryState, stageMask).drawState
    /\ pathEmpty = FALSE
    /\ logBuffers = FALSE
    /\ iterPos = "closed"
    /\ movePt = <<BigPoint(0)>>
    /\ lastPt = <<BigPoint(0)>>
    /\ degenerateData = BigData
    /\ \E n \in BigCounts :
          /\ segments = [k \in 1..n |-> Segment("kLine")]
          /\ fedSet = { BigPoint(k) : k \in 0..(n - 1) }
          /\ nFed = n + 1
          /\ nIntro = n
    /\ lastFedPt = <<BigPoint(0)>>
    /\ vCount = 0
    /\ iCount = 0
    /\ BackendInit
    /\ EmitInit
    /\ CanIdle

NextBig ==
    \/ GetSegmentsEnd
    \/ ReserveVertexSpace
    \/ ReserveIndexSpace
    \/ CreateVertices
    \/ DrawIndexed
    \/ DrawPathReturn

SpecBig == InitBig /\ [][NextBig]_vars

(* ======================== properties checked =========================== *)
CallOps == [k \in 1..Len(calls) |-> calls[k].op]
HasCall(op) == \E k \in 1..Len(calls) : calls[k].op = op
Granted(op) == \E k \in 1..Len(calls) : calls[k].op = op /\ calls[k].ok
Refused(op) == \E k \in 1..Len(calls) : calls[k].op = op /\ ~calls[k].ok
Drawn == HasCall("drawIndexed")
NonDegenerate == ~isDegenerate(degenerateData)
NumLines == Cardinality({ k \in 1..Len(segments) : segments[k].fType = "kLine" })
NumQuads == Cardinality({ k \in 1..Len(segments) : segments[k].fType = "kQuad" })
\* get_segments has returned true
Sized == pc \in {"reserveV", "reserveI", "emit", "draw"} \/ calls # << >>
NothingDone ==
    /\ calls = << >>
    /\ ~vertexHeld
    /\ ~indexHeld
    /\ vertWrites = << >>
    /\ idxWrites = << >>

\* C1: once get_segments has returned true for a path decoded into N segments,
\* L lines and Q quadratics, N = L + Q, vCount = 4N + 5L + 6Q and
\* iCount = 6N + 9L + 12Q; create_vertices then makes N passes, one corner
\* wedge and one edge group each, and ends with its cursors on these counts.
Thm_C1 ==
    Sized =>
        /\ Len(segments) = NumLines + NumQuads
        /\ vCount = 4 * Len(segments) + 5 * NumLines + 6 * NumQuads
        /\ iCount = 6 * Len(segments) + 9 * NumLines + 12 * NumQuads
        /\ HasCall("create_vertices") =>
              a = Len(segments) /\ v = vCount /\ i = iCount

\* the square of the claim: four line segments, 36 vertices, 60 indices, drawn
Wit_C1 ==
    /\ pc = "done"
    /\ Drawn
    /\ Len(segments) = 4
    /\ NumLines = 4
    /\ vCount = 36
    /\ iCount = 60

\* the squared distance of p from the line through q1 and q2, times |q2 - q1|^2
crossSqd(q1, q2, p) ==
    LET x == (q2[1] - q1[1]) * (p[2] - q1[2]) - (q2[2] - q1[2]) * (p[1] - q1[1])
    IN  x * x

NearSomeLine ==
    \E q1, q2 \in Points :
        /\ q1 # q2
        /\ \A p \in fedSet : crossSqd(q1, q2, p) <= TOL_SQD * distanceToSqd(q1, q2)

AllNearMovePoint ==
    \A p \in fedSet : distanceToSqd(p, movePt[1]) <= TOL_SQD

AllNearStoredLine ==
    /\ degenerateData.fStage \in {"kLine", "kNonDegenerate"}
    /\ \A p \in fedSet :
          lineValue(degenerateData, p) * lineValue(degenerateData, p)
             <= TOL_SQD * degenerateData.fLineNormal.len2

\* C2 as stated: a path all of whose points lie within 1/16 of some single
\* line leads to no reservation, no draw and no vertex or index written.
Cex_C2 == (pathEmpty \/ NearSomeLine) => NothingDone

\* C2 amended: a path that is empty, or all of whose points lie within 1/16
\* of the move point, or all of whose points lie within 1/16 of the line the
\* classifier stored (through the move point and the first point farther than
\* 1/16 from it), leads to no reservation, no draw and nothing written.
Thm_C2 ==
    (pathEmpty \/ movePt = << >> \/ AllNearMovePoint \/ AllNearStoredLine)
        => NothingDone

\* a path of three distinct points, one of them off the stored line by no
\* more than the tolerance, decoded to its end and not drawn
Wit_C2 ==
    /\ pc = "done"
    /\ ~pathEmpty
    /\ degenerateData.fStage = "kLine"
    /\ Cardinality(fedSet) >= 3
    /\ \E p \in fedSet : lineValue(degenerateData, p) # 0
    /\ AllNearStoredLine
    /\ NothingDone

\* C3: drawIndexed is called at most once; at the end of drawPath it has been
\* called exactly when the path is not empty, the verdict is NonDegenerate and
\* both reservations were granted; when called, the calls are, in order,
\* reserveVertexSpace, reserveIndexSpace, create_vertices, drawIndexed, and
\* the draw carries the counts that were reserved.
Thm_C3 ==
    /\ Cardinality({ k \in 1..Len(calls) : calls[k].op = "drawIndexed" }) <= 1
    /\ pc = "done" =>
          (Drawn <=> /\ ~pathEmpty
                     /\ NonDegenerate
                     /\ Granted("reserveVertexSpace")
                     /\ Granted("reserveIndexSpace"))
    /\ Drawn =>
          /\ CallOps = <<"reserveVertexSpace", "reserveIndexSpace",
                         "create_vertices", "drawIndexed">>
          /\ calls[1].ok
          /\ calls[2].ok
          /\ calls[4].vCount = calls[1].vCount
          /\ calls[4].iCount = calls[2].iCount
          /\ calls[4].vCount = vCount
          /\ calls[4].iCount = iCount

Wit_C3 == pc = "done" /\ Drawn /\ NumQuads > 0 /\ NumLines > 0

\* C4: a refused index reservation is followed at once by resetVertexSource;
\* after a refused vertex reservation no index reservation is requested; and
\* whenever drawPath is returning or has returned without a draw, neither
\* reservation is held.
Thm_C4 ==
    /\ \A k \in 1..Len(calls) :
          (calls[k].op = "reserveIndexSpace" /\ ~calls[k].ok) =>
              /\ k < Len(calls)
              /\ calls[k + 1].op = "resetVertexSource"
              /\ k > 1
              /\ calls[k - 1].op = "reserveVertexSpace"
              /\ calls[k - 1].ok
    /\ Refused("reserveVertexSpace") => ~HasCall("reserveIndexSpace")
    /\ (pc \in {"return", "done"} /\ ~Drawn) => (~vertexHeld /\ ~indexHeld)

Wit_C4 ==
    /\ pc = "done"
    /\ Granted("reserveVertexSpace")
    /\ Refused("reserveIndexSpace")
    /\ ~vertexHeld

\* C5: before the state is saved and after drawPath has returned the draw
\* state equals its value at entry; from the save to the return the view
\* matrix is the identity.
Thm_C5 ==
    /\ pc \in {"idle", "setup", "done"} => drawState = entryState
    /\ pc \in {"decode", "convert", "reserveV", "reserveI", "emit", "draw",
               "return"} =>
          drawState.viewMatrix = IdentityMatrix

\* a draw under a view matrix other than the identity, returned from
Wit_C5 ==
    /\ pc = "done"
    /\ Drawn
    /\ entryState.viewMatrix # IdentityMatrix
    /\ invertible(entryState.viewMatrix)
    /\ drawState = entryState

\* C6: canDrawPath answers true exactly when derivatives are supported,
\* anti-aliasing is requested, the fill is neither hairline nor inverted and
\* the path is convex; the call changes nothing of the target.
Thm_C6 ==
    cdCalled =>
        /\ cdResult <=>
              /\ cdArgs.fShaderDerivativeSupport
              /\ cdArgs.antiAlias
              /\ cdArgs.fill # "kHairLine_PathFill"
              /\ ~GrIsFillInverted(cdArgs.fill)
              /\ cdArgs.isConvex
        /\ drawState = entryState
        /\ asr = AsrIdle
        /\ NothingDone

Wit_C6 == cdCalled /\ cdResult /\ cdArgs.fill = "kEvenOdd_PathFill"

StageRank(s) ==
    CASE s = "kInitial" -> 0
      [] s = "kPoint" -> 1
      [] s = "kLine" -> 2
      [] s = "kNonDegenerate" -> 3

\* what one call of update_degenerate_test may do, from the data before (d),
\* the data after (e) and the point fed (p)
FeedStep(d, e, p) ==
    /\ StageRank(e.fStage) - StageRank(d.fStage) \in {0, 1}
    /\ d.fStage = "kInitial" => (e.fStage = "kPoint" /\ e.fFirstPoint = p)
    /\ d.fStage = "kPoint" =>
          (e.fStage = "kLine" <=> distanceToSqd(p, d.fFirstPoint) > TOL_SQD)
    /\ d.fStage = "kLine" =>
          (e.fStage = "kNonDegenerate" <=>
              LET x == d.fLineNormal.fX * (p[1] - d.fFirstPoint[1])
                       + d.fLineNormal.fY * (p[2] - d.fFirstPoint[2])
              IN  x * x > TOL_SQD * d.fLineNormal.len2)
    /\ d.fStage = "kNonDegenerate" => e = d
    /\ d.fStage # "kInitial" => e.fFirstPoint = d.fFirstPoint
    /\ d.fStage \in {"kLine", "kNonDegenerate"} =>
          (e.fLineNormal = d.fLineNormal /\ e.fLineC = d.fLineC)

\* C7: every call of update_degenerate_test moves the stage forward by at most
\* one, as FeedStep says; and NonDegenerate is reached by no fewer than three
\* fed points.
Thm_C7 ==
    /\ [][nFed' = nFed + 1 =>
            FeedStep(degenerateData, degenerateData', lastFedPt'[1])]_vars
    /\ [](degenerateData.fStage = "kNonDegenerate" => nFed >= 3)

Wit_C7 ==
    /\ pc = "classify"
    /\ degenerateData.fStage = "kNonDegenerate"
    /\ nFed = 3

\* C8 as stated: the point of the move command is not fed, so after the move
\* command alone the classifier is still in its initial stage, and the points
\* fed are exactly the points the line, quadratic and cubic commands introduced.
Cex_C8 ==
    /\ nFed = nIntro
    /\ nIntro = 0 => degenerateData.fStage = "kInitial"

\* C8 amended: the point of the move command is fed first and is the anchor;
\* after it every point a line, quadratic or cubic command introduces is fed,
\* the last point fed being the last point introduced.
Thm_C8 ==
    /\ movePt = << >> => (nFed = 0 /\ nIntro = 0)
    /\ movePt # << >> =>
          /\ nFed = nIntro + 1
          /\ degenerateData.fStage # "kInitial"
          /\ degenerateData.fFirstPoint = movePt[1]
          /\ movePt[1] \in fedSet
          /\ lastFedPt = lastPt

Wit_C8 ==
    /\ pc = "decode"
    /\ nIntro >= 3
    /\ lastPt # movePt
    /\ degenerateData.fFirstPoint = movePt[1]
    /\ degenerateData.fStage = "kNonDegenerate"

\* C9: after create_vertices the vertex slots written are 0, 1, .., vCount - 1
\* and the index slots written are 0, 1, .., iCount - 1, each once and in
\* this order, and the cursors stand at vCount and iCount.
Thm_C9 ==
    HasCall("create_vertices") =>
        /\ Len(segments) >= 1
        /\ vertWrites = [k \in 1..vCount |-> k - 1]
        /\ Len(idxWrites) = iCount
        /\ \A k \in 1..Len(idxWrites) : idxWrites[k].slot = k - 1
        /\ v = vCount
        /\ i = iCount

Wit_C9 ==
    /\ pc = "draw"
    /\ NumQuads > 0
    /\ NumLines > 0
    /\ Len(vertWrites) = vCount
    /\ Len(idxWrites) = iCount

\* the indices a pass stored are the positions of the vertices of its own
\* wedge and of its own edge group
IndicesExact(w) ==
    /\ \A k \in 1..Len(w.wedgeIdx) : w.wedgeIdx[k] = w.wedgeV + WedgeIdx[k]
    /\ \A k \in 1..Len(w.edgeIdx) :
          w.edgeIdx[k] = w.edgeV + (IF w.edgeVerts = LineVerts
                                    THEN LineIdx[k] ELSE QuadIdx[k])

\* C10 as stated: a mesh whose vertices were reserved has at most 65536 of
\* them, and every index create_vertices stored in its last pass is the
\* position of the vertex meant and is below vCount.
Cex_C10 ==
    /\ Granted("reserveVertexSpace") => vCount <= IndexModulus
    /\ HasCall("create_vertices") =>
          /\ IndicesExact(lastWrite)
          /\ \A k \in 1..Len(lastWrite.edgeIdx) : lastWrite.edgeIdx[k] < vCount

====
